---- MODULE Spec2Model ----
(***************************************************************************)
(* Authorization core of rebac-rbac-postgres-ts: the store the Prisma      *)
(* client reads, the Express pipeline of the two record routes             *)
(* (requireAuth, validateRecordId, rbac / rebacResource, route handler     *)
(* with getRecordById) and the row-level writes that change the store      *)
(* between and during requests.                                            *)
(***************************************************************************)
EXTENDS Integers, Sequences, FiniteSets, Bags, TLC

(***************************************************************************)
(* Bounds of the model.                                                    *)
(***************************************************************************)
\* number of row-level writes applied to the seeded store in one behaviour
MaxMutations == 1
\* largest PatientRecord id the autoincrement sequence hands out
MaxRecordId == 3

(***************************************************************************)
(* Value domains.                                                          *)
(***************************************************************************)
\* ids of the three users seed() creates: doctor, nurse, patient
DocUser == 1
NurseUser == 2
PatientUser == 3
SeedUsers == {DocUser, NurseUser, PatientUser}
\* userId values a token payload can carry: the seeded ids and one id of no user
TokenUserIds == SeedUsers \cup {4}
\* absent Authorization header
NoToken == 0

RoleNames == {"doctor", "nurse", "admin"}
PermissionNames == {"record:read", "record:write", "record:*"}
RelationTypes == {"assigned_to", "manages"}
\* permission names handed to the rbac() factory
RequiredPermissions == {"record:read", "record:write"}

\* relation types handed to the rebacResource() factory
RequiredRelations == RelationTypes

\* raw :id path parameters, as character sequences
ParamInputs ==
    { <<"1">>, <<"2">>, <<"3">>, <<"0">>, <<"-", "1">>, <<"a">>, <<"1", "a">> }

VARIABLES
    users,            \* User table: set of user ids
    userRoles,        \* UserRole table: set of <<userId, roleName>>
    rolePermissions,  \* RolePermission table: set of <<roleName, permissionName>>
    userEmail,        \* User.email: function user id -> e-mail address
    nextUserId,       \* autoincrement sequence of User.id
    relationshipRows, \* Relationship table: bag of rows <<subjectId, objectId, type>>
    records,          \* PatientRecord table: function id -> ownerId
    nextRecordId,     \* autoincrement sequence of PatientRecord.id
    mutations,        \* number of row-level writes applied so far
    req,              \* the request in flight: Express req/res and the locals of its middleware
    seedRun,          \* the seed() call in progress: its position, its locals and the number of runs
    session,          \* what the test client holds: its position, the login token, the responses
    onDelete,         \* referential action of the foreign keys of the schema
    registrations     \* the registerUser calls: function call -> position, e-mail, outcome

store ==
    <<users, userEmail, nextUserId, userRoles, rolePermissions, relationshipRows, records,
      nextRecordId>>
\* the processes beside the request, and the schema
aux == <<seedRun, session, onDelete, registrations>>
vars == <<store, mutations, req, aux>>

\* the edges of the Relationship table
relationships == BagToSet(relationshipRows)

(***************************************************************************)
(* JavaScript values and conversions used on the :id path parameter.       *)
(***************************************************************************)
Range(s) == {s[i] : i \in DOMAIN s}

\* every order in which the rows of S can be returned by a query without orderBy
Enumerations(S) ==
    {f \in [1..Cardinality(S) -> S] : \A i, j \in 1..Cardinality(S) : i # j => f[i] # f[j]}

DigitChars == <<"0", "1", "2", "3", "4", "5", "6", "7", "8", "9">>
IsDigit(c) == \E i \in DOMAIN DigitChars : DigitChars[i] = c
DigitValue(c) == (CHOOSE i \in DOMAIN DigitChars : DigitChars[i] = c) - 1

\* a JavaScript number: an integer or NaN
Number(n) == [nan |-> FALSE, n |-> n]
NaN == [nan |-> TRUE, n |-> 0]

\* value of the longest run of digits of str that starts at position i
RECURSIVE ParseDigits(_, _, _)
ParseDigits(str, i, acc) ==
    IF i > Len(str) \/ ~IsDigit(str[i])
    THEN acc
    ELSE ParseDigits(str, i + 1, acc * 10 + DigitValue(str[i]))

\* parseInt(str, 10): optional sign, then the longest prefix of digits; NaN without a digit
parseInt(str) ==
    LET signed == Len(str) > 0 /\ str[1] \in {"-", "+"}
        first == IF signed THEN 2 ELSE 1
        magnitude == ParseDigits(str, first, 0)
    IN  IF first > Len(str) \/ ~IsDigit(str[first])
        THEN NaN
        ELSE Number(IF signed /\ str[1] = "-" THEN 0 - magnitude ELSE magnitude)

RECURSIVE DigitsOf(_)
DigitsOf(n) ==
    IF n < 10
    THEN <<DigitChars[n + 1]>>
    ELSE Append(DigitsOf(n \div 10), DigitChars[(n % 10) + 1])

\* String(number)
NumberToString(v) ==
    IF v.nan THEN <<"N", "a", "N">>
    ELSE IF v.n < 0 THEN <<"-">> \o DigitsOf(0 - v.n)
    ELSE DigitsOf(v.n)

\* req.params.id holds the raw string until the validation chain replaces it by a number
StringValue(str) == [isString |-> TRUE, str |-> str, num |-> NaN]
NumberValue(v) == [isString |-> FALSE, str |-> <<>>, num |-> v]
StringOf(value) == IF value.isString THEN value.str ELSE NumberToString(value.num)

\* isInt({ min: 1 }) of the validation chain: an optional sign, then 0 or digits
\* without a leading zero, and a value of at least 1
isInt(str) ==
    LET signed == Len(str) > 0 /\ str[1] \in {"-", "+"}
        digits == IF signed THEN Tail(str) ELSE str
    IN  /\ Len(digits) > 0
        /\ \A i \in DOMAIN digits : IsDigit(digits[i])
        /\ (Len(digits) > 1 => digits[1] # "0")
        /\ ~parseInt(str).nan /\ parseInt(str).n >= 1

\* param("id").isInt({ min: 1 }).toInt(): the chain is never followed by a
\* validationResult() check, so only its sanitizer has an effect
validateRecordIdValue(value) == NumberValue(parseInt(StringOf(value)))

(***************************************************************************)
(* Error classes and the global error handler.                             *)
(***************************************************************************)
\* statusCode of each AppError subclass
statusCode(error) ==
    CASE error = "BadRequestError" -> 400
      [] error = "UnauthorizedError" -> 401
      [] error = "ForbiddenError" -> 403
      [] error = "NotFoundError" -> 404
      [] error = "ConflictError" -> 409
      [] error = "DatabaseError" -> 500

AppErrors ==
    {"BadRequestError", "UnauthorizedError", "ForbiddenError", "NotFoundError", "ConflictError",
     "DatabaseError"}

\* status the global error handler answers with; an error thrown by the Prisma
\* client is no AppError
errorHandlerStatus(error) == IF error \in AppErrors THEN statusCode(error) ELSE 500

(***************************************************************************)
(* Store reads.                                                            *)
(***************************************************************************)
\* role rows whose included permissions may be cut short
RoleSnapshots_Partial(role) ==
    {[name |-> role, permissions |-> ps] :
        ps \in UNION {Enumerations(some) :
                        some \in SUBSET {p \in PermissionNames : <<role, p>> \in rolePermissions}}}

\* the role rows of one role with its permissions included, in any order
RoleSnapshots(role) ==
    {[name |-> role, permissions |-> ps] :
        ps \in Enumerations({p \in PermissionNames : <<role, p>> \in rolePermissions})}

\* a lookup that falls back to any other user when the id is not in the table
userFindUnique_Fallback(id) ==
    {[id |-> u, roles |-> <<>>] : u \in IF id \in users THEN {id} ELSE users}

\* prisma.user.findUnique({ where: { id }, include: roles -> role -> permissions }):
\* the user rows the query can return; empty when no user has the id
userFindUnique(id) ==
    IF id \notin users
    THEN {}
    ELSE LET mine == {r \in RoleNames : <<id, r>> \in userRoles}
             rows == UNION {RoleSnapshots(r) : r \in mine}
         IN  {[id |-> id, roles |-> rs] :
                rs \in {f \in [1..Cardinality(mine) -> rows] :
                          {f[i].name : i \in DOMAIN f} = mine}}

\* prisma.patientRecord.findUnique({ where: { id } }): the matching rows
patientRecordFindUnique(id) ==
    IF id \in DOMAIN records THEN {[id |-> id, ownerId |-> records[id]]} ELSE {}

\* relationshipFindUnique with the object left out of the key
relationshipFindUnique_AnyObject(subjectId, objectId, type) ==
    {e \in relationships : e[1] = subjectId /\ e[3] = type}

\* relationshipFindUnique with the type left out of the key
relationshipFindUnique_AnyType(subjectId, objectId, type) ==
    {e \in relationships : e[1] = subjectId /\ e[2] = objectId}

\* relationshipFindUnique that also accepts the edge in the opposite direction
relationshipFindUnique_Symmetric(subjectId, objectId, type) ==
    {e \in relationships : e \in {<<subjectId, objectId, type>>, <<objectId, subjectId, type>>}}

\* relationshipFindUnique that also follows a chain of two edges
relationshipFindUnique_TwoHop(subjectId, objectId, type) ==
    {e \in relationships :
        \/ e = <<subjectId, objectId, type>>
        \/ /\ e[1] = subjectId /\ e[3] = type
           /\ <<e[2], objectId, type>> \in relationships}

\* prisma.relationship.findUnique({ where: { subjectId_objectId_type } }): the matching rows
relationshipFindUnique(subjectId, objectId, type) ==
    {e \in relationships : e = <<subjectId, objectId, type>>}

(***************************************************************************)
(* rbac middleware: the permission set and its test.                       *)
(***************************************************************************)
\* an array push in place of Set.prototype.add
SetAdd_Push(set, x) == Append(set, x)

\* Set.prototype.add on a Set kept in insertion order
SetAdd(set, x) == IF x \in Range(set) THEN set ELSE Append(set, x)

\* a test that lets the wildcard name stand for every permission
SetHas_Wildcard(set, x) == x \in Range(set) \/ "record:*" \in Range(set)

\* a test that looks at the first element only
SetHas_First(set, x) == Len(set) > 0 /\ set[1] = x

\* Set.prototype.has
SetHas(set, x) == x \in Range(set)

\* inner loop: every permission of one role is added
RECURSIVE AddRolePermissions(_, _, _)
AddRolePermissions(set, perms, i) ==
    IF i > Len(perms)
    THEN set
    ELSE AddRolePermissions(SetAdd(set, perms[i]), perms, i + 1)

\* outer loop that starts a new Set for every role
RECURSIVE CollectPermissions_PerRole(_, _, _)
CollectPermissions_PerRole(set, roles, i) ==
    IF i > Len(roles)
    THEN set
    ELSE CollectPermissions_PerRole(AddRolePermissions(<<>>, roles[i].permissions, 1),
                                    roles, i + 1)

\* outer loop over user.roles
RECURSIVE CollectPermissions(_, _, _)
CollectPermissions(set, roles, i) ==
    IF i > Len(roles)
    THEN set
    ELSE CollectPermissions(AddRolePermissions(set, roles[i].permissions, 1), roles, i + 1)

\* const permissions = new Set<string>() filled from user.roles
userPermissions(user) == CollectPermissions(<<>>, user.roles, 1)

(***************************************************************************)
(* The request in flight.                                                  *)
(***************************************************************************)
NoUser == [id |-> NoToken, roles |-> <<>>]
NoRecord == [id |-> NoToken, ownerId |-> NoToken]

\* no response received yet
NoResponse ==
    [status |-> NoToken, error |-> "none", data |-> NoRecord, failed |-> FALSE, epoch |-> NoToken]

\* no request: every field at its initial value
Idle ==
    [pc |-> "idle",          \* the middleware or handler that runs next
     route |-> "none",       \* "rbac" for GET /records/rbac/:id, "rebac" for GET /records/rebac/:id
     token |-> NoToken,      \* userId of the Bearer token, NoToken without a valid token
     paramsId |-> StringValue(<<>>),  \* req.params.id
     required |-> "none",    \* permissionName / relationType of the middleware factory
     user |-> NoUser,        \* req.user
     permissions |-> <<>>,   \* rbac: const permissions
     record |-> NoRecord,    \* rebacResource: const record
     relationship |-> {},    \* rebacResource: const relationship (empty for null)
     authz |-> "pending",    \* what the authorization middleware passed to next(): "next" or an error
     error |-> "none",       \* the error handed to the global error handler
     status |-> NoToken,     \* HTTP status of the response, once sent
     data |-> NoRecord,      \* data of the 200 response
     reads |-> <<>>,         \* the Prisma calls made for this request, in order
     thrown |-> "none",      \* the error a failed Prisma call threw, before any catch block
     message |-> "",         \* message of the error handed to the global error handler
     url |-> <<>>,           \* the :id segment of the URL as the client sent it
     epoch |-> NoToken,      \* store writes committed when the client sent the request again
     prev |-> NoResponse]    \* the response to the same request when the client sent it before

\* an error that is recorded while the chain goes on to the route handler
Fail_FallThrough(r, error) ==
    [r EXCEPT !.pc = "handler", !.error = error, !.status = errorHandlerStatus(error)]

\* next(error): the remaining middleware is skipped and the error handler answers
Fail(r, error) ==
    [r EXCEPT !.pc = "done", !.error = error, !.status = errorHandlerStatus(error)]

\* throw new <error>(message), caught and handed to next(error)
FailWith(r, error, message) == [Fail(r, error) EXCEPT !.message = message]

Called(r, op) == [r EXCEPT !.reads = Append(@, op)]

\* the Prisma call just made rejects
Throws(r) == [r EXCEPT !.thrown = "PrismaError"]

\* the Prisma client refuses the arguments of the call before it queries the store
ThrowsValidation(r) == [r EXCEPT !.thrown = "PrismaClientValidationError"]

\* outcome of the authorization middleware of the route
Allow(r) == r.authz = "next"
Deny(r) == r.authz = "ForbiddenError"
NotFound(r) == r.authz = "NotFoundError"
Decided(r) == r.authz # "pending"

(***************************************************************************)
(* Request pipeline.                                                       *)
(***************************************************************************)
\* a client sends GET /records/<route>/<id>
StartRequest(route, token, id, required) ==
    /\ req.pc = "idle"
    /\ req' = [Idle EXCEPT !.pc = "requireAuth", !.route = route, !.token = token,
                           !.paramsId = StringValue(id), !.required = required,
                           !.url = id]
    /\ UNCHANGED <<store, mutations, aux>>

\* a repeated request that keeps req.user of the request before and skips requireAuth
repeatRequest_Cached ==
    /\ req.pc = "done"
    /\ req' = [Idle EXCEPT !.pc = IF req.user = NoUser THEN "requireAuth" ELSE "validateRecordId",
                           !.user = req.user,
                           !.route = req.route, !.token = req.token,
                           !.paramsId = StringValue(req.url), !.required = req.required,
                           !.url = req.url, !.epoch = mutations,
                           !.prev = [status |-> req.status, error |-> req.error,
                                     data |-> req.data, failed |-> req.thrown # "none",
                                     epoch |-> req.epoch]]
    /\ UNCHANGED <<store, mutations, aux>>

\* the client sends the request it has just been answered once more
repeatRequest ==
    /\ req.pc = "done"
    /\ req' = [Idle EXCEPT !.pc = "requireAuth", !.route = req.route, !.token = req.token,
                           !.paramsId = StringValue(req.url), !.required = req.required,
                           !.url = req.url, !.epoch = mutations,
                           !.prev = [status |-> req.status, error |-> req.error,
                                     data |-> req.data, failed |-> req.thrown # "none",
                                     epoch |-> req.epoch]]
    /\ UNCHANGED <<store, mutations, aux>>

\* a catch block that hands on whatever was thrown
authFailureError_Raw == "PrismaError"

\* the error requireAuth hands on when anything but an UnauthorizedError was thrown
authFailureError == "UnauthorizedError"

\* authentication that lets a request without a known user go on
requireAuth_Optional ==
    /\ req.pc = "requireAuth"
    /\ IF req.token = NoToken
       THEN req' = [req EXCEPT !.pc = "validateRecordId"]
       ELSE \E ok \in BOOLEAN :
              LET r == Called(req, "user.findUnique")
                  found == userFindUnique(req.token)
              IN  IF ~ok
                  THEN req' = FailWith(Throws(r), authFailureError, "Authentication failed")
                  ELSE IF found = {}
                  THEN req' = [r EXCEPT !.pc = "validateRecordId"]
                  ELSE \E user \in found :
                         req' = [r EXCEPT !.user = user, !.pc = "validateRecordId"]
    /\ UNCHANGED <<store, mutations, aux>>

\* requireAuth: token check, then the user is loaded with roles and permissions
requireAuth ==
    /\ req.pc = "requireAuth"
    /\ IF req.token = NoToken
       THEN req' = FailWith(req, "UnauthorizedError",
                            "Missing or invalid authorization header")
       ELSE \E ok \in BOOLEAN :
              LET r == Called(req, "user.findUnique")
                  found == userFindUnique(req.token)
              IN  IF ~ok
                  THEN \* the catch block replaces every other error
                       req' = FailWith(Throws(r), authFailureError, "Authentication failed")
                  ELSE IF found = {}
                  THEN req' = FailWith(r, "UnauthorizedError", "User not found")
                  ELSE \E user \in found :
                         req' = [r EXCEPT !.user = user, !.pc = "validateRecordId"]
    /\ UNCHANGED <<store, mutations, aux>>

\* validateRecordId: the sanitizer rewrites req.params.id; the request always goes on
validateRecordId ==
    /\ req.pc = "validateRecordId"
    /\ req' = [req EXCEPT !.paramsId = validateRecordIdValue(@),
                          !.pc = IF req.route = "rbac" THEN "rbac" ELSE "rebacResource"]
    /\ UNCHANGED <<store, mutations, aux>>

\* a permission check that also wants the requested record to exist
rbac_RecordBound ==
    /\ req.pc = "rbac"
    /\ LET permissions == userPermissions(req.user)
           r == [req EXCEPT !.permissions = permissions]
           id == parseInt(StringOf(req.paramsId))
       IN  IF SetHas(permissions, req.required) /\ ~id.nan /\ id.n \in DOMAIN records
           THEN req' = [r EXCEPT !.authz = "next", !.pc = "handler"]
           ELSE req' = FailWith([r EXCEPT !.authz = "ForbiddenError"], "ForbiddenError",
                                "Insufficient permissions")
    /\ UNCHANGED <<store, mutations, aux>>

\* rbac(permissionName)
rbac ==
    /\ req.pc = "rbac"
    /\ LET permissions == userPermissions(req.user)
           r == [req EXCEPT !.permissions = permissions]
       IN  IF SetHas(permissions, req.required)
           THEN req' = [r EXCEPT !.authz = "next", !.pc = "handler"]
           ELSE req' = FailWith([r EXCEPT !.authz = "ForbiddenError"], "ForbiddenError",
                                "Insufficient permissions")
    /\ UNCHANGED <<store, mutations, aux>>

\* a catch block that reports a failed read as a denial
rebacFailureError_Forbidden == "ForbiddenError"

\* the error rebacResource hands on when a Prisma call rejects: the caught error itself
rebacFailureError == "PrismaError"

\* a missing record reported as a denial
missingRecordError_Forbidden == "ForbiddenError"

\* error rebacResource throws when findUnique returns no record
missingRecordError == "NotFoundError"

\* the owner test left out
isOwner_Never(record, user) == FALSE

\* record.ownerId === user.id
isOwner(record, user) == record.ownerId = user.id

\* an id test that rejects NaN only
invalidRecordId_NaNOnly(id) == id.nan

\* !id || isNaN(id) || id < 1
invalidRecordId(id) == id.nan \/ id.n = 0 \/ id.n < 1

\* rebacResource(relationType), up to and including the owner test
rebacResource ==
    /\ req.pc = "rebacResource"
    /\ LET id == parseInt(StringOf(req.paramsId))
       IN  IF invalidRecordId(id)
           THEN req' = FailWith([req EXCEPT !.authz = "BadRequestError"], "BadRequestError",
                                "Invalid or missing record ID")
           ELSE \E ok \in BOOLEAN :
                  LET r == Called(req, "patientRecord.findUnique")
                      found == patientRecordFindUnique(id.n)
                  IN  IF ~ok
                      THEN req' = FailWith(Throws([r EXCEPT !.authz = rebacFailureError]),
                                           rebacFailureError, "store read failed")
                      ELSE IF found = {}
                      THEN req' = FailWith([r EXCEPT !.authz = missingRecordError],
                                           missingRecordError, "Record not found")
                      ELSE \E record \in found :
                             IF isOwner(record, req.user)
                             THEN req' = [r EXCEPT !.record = record, !.authz = "next",
                                                   !.pc = "handler"]
                             ELSE req' = [r EXCEPT !.record = record,
                                                   !.pc = "rebacResourceEdge"]
    /\ UNCHANGED <<store, mutations, aux>>

\* a relationship lookup that holders of "record:write" need not pass
rebacResourceEdge_RoleBypass ==
    /\ req.pc = "rebacResourceEdge"
    /\ \E ok \in BOOLEAN :
         LET r == Called(req, "relationship.findUnique")
             relationship ==
                 relationshipFindUnique(req.user.id, req.record.ownerId, req.required)
         IN  IF ~ok
             THEN req' = FailWith(Throws([r EXCEPT !.authz = rebacFailureError]),
                                  rebacFailureError, "store read failed")
             ELSE IF relationship # {} \/ SetHas(userPermissions(req.user), "record:write")
             THEN req' = [r EXCEPT !.relationship = relationship, !.authz = "next",
                                   !.pc = "handler"]
             ELSE req' = FailWith([r EXCEPT !.authz = "ForbiddenError"], "ForbiddenError",
                                  "No relationship found with record owner")
    /\ UNCHANGED <<store, mutations, aux>>

\* rebacResource(relationType), from the relationship lookup on
rebacResourceEdge ==
    /\ req.pc = "rebacResourceEdge"
    /\ \E ok \in BOOLEAN :
         LET r == Called(req, "relationship.findUnique")
             relationship ==
                 relationshipFindUnique(req.user.id, req.record.ownerId, req.required)
         IN  IF ~ok
             THEN req' = FailWith(Throws([r EXCEPT !.authz = rebacFailureError]),
                                  rebacFailureError, "store read failed")
             ELSE IF relationship # {}
             THEN req' = [r EXCEPT !.relationship = relationship, !.authz = "next",
                                   !.pc = "handler"]
             ELSE req' = FailWith([r EXCEPT !.authz = "ForbiddenError"], "ForbiddenError",
                                  "No relationship found with record owner")
    /\ UNCHANGED <<store, mutations, aux>>

\* a handler that fetches the record with patientRecord.delete, which also returns the row
recordHandler_Delete ==
    /\ req.pc = "handler"
    /\ LET id == parseInt(StringOf(req.paramsId))
           r == Called(req, "patientRecord.delete")
       IN  IF id.nan \/ id.n \notin DOMAIN records
           THEN /\ req' = FailWith(r, "NotFoundError", "Record not found")
                /\ records' = records
           ELSE /\ req' = [r EXCEPT !.data = [id |-> id.n, ownerId |-> records[id.n]],
                                    !.status = 200, !.pc = "done"]
                /\ records' = [i \in DOMAIN records \ {id.n} |-> records[i]]
    /\ UNCHANGED <<users, userEmail, nextUserId, userRoles, rolePermissions, relationshipRows, nextRecordId, mutations, aux>>

\* the route handler: getRecordById(parseInt(req.params.id, 10)) and res.json
recordHandler ==
    /\ req.pc = "handler"
    /\ \E ok \in BOOLEAN :
         LET id == parseInt(StringOf(req.paramsId))
             r == Called(req, "patientRecord.findUnique")
             found == IF id.nan THEN {} ELSE patientRecordFindUnique(id.n)
         IN  IF id.nan
             THEN \* the Prisma client rejects a NaN id; getRecordById wraps every
                  \* error but NotFoundError
                  req' = FailWith(ThrowsValidation(r), "DatabaseError", "Failed to fetch record")
             ELSE IF ~ok
             THEN req' = FailWith(Throws(r), "DatabaseError", "Failed to fetch record")
             ELSE IF found = {}
             THEN req' = FailWith(r, "NotFoundError", "Record not found")
             ELSE \E record \in found :
                    req' = [r EXCEPT !.data = record, !.status = 200, !.pc = "done"]
    /\ UNCHANGED <<store, mutations, aux>>

\* the response has been sent; the server takes the next request
complete ==
    /\ req.pc = "done"
    /\ req' = Idle
    /\ UNCHANGED <<store, mutations, aux>>

(***************************************************************************)
(* Row-level writes to the store, as seed() issues them.                   *)
(***************************************************************************)
userRoleCreate(userId, role) ==
    /\ mutations < MaxMutations
    /\ userId \in users
    /\ <<userId, role>> \notin userRoles
    /\ userRoles' = userRoles \cup {<<userId, role>>}
    /\ mutations' = mutations + 1
    /\ UNCHANGED <<users, userEmail, nextUserId, rolePermissions, relationshipRows, records, nextRecordId, req, aux>>

userRoleDelete(userId, role) ==
    /\ mutations < MaxMutations
    /\ <<userId, role>> \in userRoles
    /\ userRoles' = userRoles \ {<<userId, role>>}
    /\ mutations' = mutations + 1
    /\ UNCHANGED <<users, userEmail, nextUserId, rolePermissions, relationshipRows, records, nextRecordId, req, aux>>

rolePermissionCreate(role, permission) ==
    /\ mutations < MaxMutations
    /\ <<role, permission>> \notin rolePermissions
    /\ rolePermissions' = rolePermissions \cup {<<role, permission>>}
    /\ mutations' = mutations + 1
    /\ UNCHANGED <<users, userEmail, nextUserId, userRoles, relationshipRows, records, nextRecordId, req, aux>>

\* prisma.relationship.create on a table without the unique key
subjectId_objectId_type_NotUnique(subjectId, objectId, type) == FALSE

\* the compound unique key subjectId_objectId_type: some row already has the triple
subjectId_objectId_type(subjectId, objectId, type) ==
    BagIn(<<subjectId, objectId, type>>, relationshipRows)

relationshipCreate(subjectId, objectId, type) ==
    /\ mutations < MaxMutations
    /\ subjectId \in users /\ objectId \in users
    /\ IF subjectId_objectId_type(subjectId, objectId, type)
       THEN \* unique constraint violation: the create throws and inserts nothing
            UNCHANGED <<relationshipRows, mutations>>
       ELSE /\ relationshipRows' = relationshipRows (+) SetToBag({<<subjectId, objectId, type>>})
            /\ mutations' = mutations + 1
    /\ UNCHANGED <<users, userEmail, nextUserId, userRoles, rolePermissions, records, nextRecordId, req, aux>>

relationshipDelete(subjectId, objectId, type) ==
    /\ mutations < MaxMutations
    /\ <<subjectId, objectId, type>> \in relationships
    /\ relationshipRows' =
         [e \in DOMAIN relationshipRows \ {<<subjectId, objectId, type>>} |-> relationshipRows[e]]
    /\ mutations' = mutations + 1
    /\ UNCHANGED <<users, userEmail, nextUserId, userRoles, rolePermissions, records, nextRecordId, req, aux>>

patientRecordCreate(ownerId) ==
    /\ mutations < MaxMutations
    /\ nextRecordId <= MaxRecordId
    /\ ownerId \in users
    /\ records' = [id \in DOMAIN records \cup {nextRecordId} |->
                     IF id = nextRecordId THEN ownerId ELSE records[id]]
    /\ nextRecordId' = nextRecordId + 1
    /\ mutations' = mutations + 1
    /\ UNCHANGED <<users, userEmail, nextUserId, userRoles, rolePermissions, relationshipRows, req, aux>>

patientRecordDelete(id) ==
    /\ mutations < MaxMutations
    /\ id \in DOMAIN records
    /\ records' = [i \in DOMAIN records \ {id} |-> records[i]]
    /\ mutations' = mutations + 1
    /\ UNCHANGED <<users, userEmail, nextUserId, userRoles, rolePermissions, relationshipRows, nextRecordId, req, aux>>

\* a record is given another owner
patientRecordUpdate(id, ownerId) ==
    /\ mutations < MaxMutations
    /\ id \in DOMAIN records /\ ownerId \in users /\ records[id] # ownerId
    /\ records' = [records EXCEPT ![id] = ownerId]
    /\ mutations' = mutations + 1
    /\ UNCHANGED <<users, userEmail, nextUserId, userRoles, rolePermissions, relationshipRows, nextRecordId, req, aux>>

(***************************************************************************)
(* Specification.                                                          *)
(***************************************************************************)
\* no seed() call in progress
SeedIdle ==
    [pc |-> "idle",       \* the statement of seed() that runs next
     runs |-> NoToken,    \* calls of seed() started so far
     docUser |-> NoToken, nurseUser |-> NoToken, patient |-> NoToken,  \* ids of the created users
     rec1 |-> NoToken, rec2 |-> NoToken,                               \* ids of the created records
     returned |-> <<>>,   \* records of the value the last completed call returned
     failed |-> FALSE]    \* the last call rejected

\* the test client before it has done anything
NoSession ==
    [pc |-> "idle", token |-> NoToken, recId |-> NoToken, r1 |-> NoToken, r2 |-> NoToken]

\* registerUser calls that can be in progress
MaxRegistrations == 3

\* a registerUser call that has not been made
NoRegistration ==
    [pc |-> "idle",       \* the awaited call of registerUser that runs next
     email |-> "",        \* its email argument
     calls |-> <<>>,      \* the Prisma calls it has made
     rejected |-> FALSE,  \* the store rejected a call for a reason other than the unique e-mail
     user |-> NoToken,    \* id of the user it returned
     error |-> "none",    \* the error it threw
     status |-> NoToken]  \* status of the response to POST /auth/register

\* e-mail addresses seed() gives the doctor, the nurse and the patient
SeedEmails == <<"doc@example.com", "nurse@example.com", "patient@example.com">>

\* the tables seed() fills on an empty database
SeedUserRoles == {<<DocUser, "doctor">>, <<NurseUser, "nurse">>}
SeedRolePermissions ==
    {<<"doctor", "record:read">>, <<"doctor", "record:write">>,
     <<"nurse", "record:read">>,
     <<"admin", "record:read">>, <<"admin", "record:write">>}
SeedRelationships == {<<DocUser, PatientUser, "assigned_to">>}
SeedRecords == [id \in {1, 2} |-> PatientUser]

\* the store seed() leaves behind on an empty database
Init ==
    /\ users = SeedUsers
    /\ userEmail = [id \in SeedUsers |-> SeedEmails[id]]
    /\ nextUserId = 4
    /\ seedRun = SeedIdle
    /\ session = NoSession
    /\ onDelete = "Restrict"
    /\ registrations = [c \in 1..MaxRegistrations |-> NoRegistration]
    /\ userRoles = SeedUserRoles
    /\ rolePermissions = SeedRolePermissions
    /\ relationshipRows = SetToBag(SeedRelationships)
    /\ records = SeedRecords
    /\ nextRecordId = 3
    /\ mutations = 0
    /\ req = Idle

Next ==
    \/ \E token \in TokenUserIds \cup {NoToken}, id \in ParamInputs :
         \/ \E p \in RequiredPermissions : StartRequest("rbac", token, id, p)
         \/ \E t \in RequiredRelations : StartRequest("rebac", token, id, t)
    \/ requireAuth
    \/ validateRecordId
    \/ rbac
    \/ rebacResource
    \/ rebacResourceEdge
    \/ recordHandler
    \/ complete
    \/ \E u \in SeedUsers, r \in RoleNames : userRoleCreate(u, r) \/ userRoleDelete(u, r)
    \/ \E r \in RoleNames, p \in PermissionNames : rolePermissionCreate(r, p)
    \/ \E s \in SeedUsers, o \in SeedUsers, t \in RelationTypes :
         relationshipCreate(s, o, t) \/ relationshipDelete(s, o, t)
    \/ \E o \in SeedUsers : patientRecordCreate(o)
    \/ \E id \in 1..MaxRecordId : patientRecordDelete(id)

Spec == Init /\ [][Next]_vars

\* the requests a client repeats: an existing record, a record never created
\* and an id that is no number
SeqParamInputs == {<<"1">>, <<"3">>, <<"a">>}

\* a role grant or revocation, an edge creation or deletion
adminWrite ==
    \/ \E u \in SeedUsers, r \in RoleNames : userRoleCreate(u, r) \/ userRoleDelete(u, r)
    \/ \E s \in SeedUsers, o \in SeedUsers, t \in RelationTypes :
         relationshipCreate(s, o, t) \/ relationshipDelete(s, o, t)

\* requests served one after the other, each possibly sent again, with writes
\* committed only between two requests
SeqNext ==
    \/ \E token \in SeedUsers, id \in SeqParamInputs :
         \/ \E p \in RequiredPermissions : StartRequest("rbac", token, id, p)
         \/ \E t \in RequiredRelations : StartRequest("rebac", token, id, t)
    \/ requireAuth
    \/ validateRecordId
    \/ rbac
    \/ rebacResource
    \/ rebacResourceEdge
    \/ recordHandler
    \/ complete
    \/ repeatRequest
    \/ (req.pc = "done" /\ adminWrite)

SeqSpec == Init /\ [][SeqNext]_vars

(***************************************************************************)
(* seed(), one step per awaited Prisma call, and the test that calls it.   *)
(***************************************************************************)
\* calls of seed() that are started
MaxSeedRuns == 2

\* referential actions a relation can have been declared with
ReferentialActions == {"Cascade", "Restrict"}

\* the awaited calls of seed() in program order
SeedSteps ==
    <<"permission.deleteMany", "rolePermission.deleteMany", "role.deleteMany",
      "userRole.deleteMany", "user.deleteMany", "patientRecord.deleteMany",
      "relationship.deleteMany",
      "permRead", "permWrite", "doctor", "nurse", "admin", "rolePermission.createMany",
      "docUser", "nurseUser", "patient", "userRole.createMany", "rec1", "rec2",
      "relationship.create", "return">>

SeedStepAfter(pc) == SeedSteps[1 + CHOOSE i \in DOMAIN SeedSteps : SeedSteps[i] = pc]

\* the awaited call resolves and seed() goes on with its next statement
SeedGoes == [seedRun EXCEPT !.pc = SeedStepAfter(@)]

\* the awaited call rejects and so does seed()
SeedThrows == [seedRun EXCEPT !.pc = "idle", !.failed = TRUE]

EmptyRecords == [id \in {} |-> NoToken]

\* seed() is called
startSeed ==
    /\ seedRun.pc = "idle" /\ seedRun.runs < MaxSeedRuns
    /\ req.pc = "idle"
    /\ seedRun' = [SeedIdle EXCEPT !.pc = SeedSteps[1], !.runs = seedRun.runs + 1]
    /\ UNCHANGED <<users, userEmail, nextUserId, userRoles, rolePermissions, relationshipRows,
                   records, nextRecordId, mutations, req, session, onDelete,
                   registrations>>

\* permission.deleteMany(): RolePermission rows refer to the permissions
seed_permissionDeleteMany ==
    /\ seedRun.pc = "permission.deleteMany"
    /\ IF onDelete = "Restrict" /\ rolePermissions # {}
       THEN seedRun' = SeedThrows /\ UNCHANGED rolePermissions
       ELSE seedRun' = SeedGoes /\ rolePermissions' = {}
    /\ UNCHANGED <<users, userEmail, nextUserId, userRoles, relationshipRows, records,
                   nextRecordId, mutations, req, session, onDelete,
                   registrations>>

seed_rolePermissionDeleteMany ==
    /\ seedRun.pc = "rolePermission.deleteMany"
    /\ seedRun' = SeedGoes
    /\ rolePermissions' = {}
    /\ UNCHANGED <<users, userEmail, nextUserId, userRoles, relationshipRows, records,
                   nextRecordId, mutations, req, session, onDelete,
                   registrations>>

\* role.deleteMany(): RolePermission and UserRole rows refer to the roles
seed_roleDeleteMany ==
    /\ seedRun.pc = "role.deleteMany"
    /\ IF onDelete = "Restrict" /\ (rolePermissions # {} \/ userRoles # {})
       THEN seedRun' = SeedThrows /\ UNCHANGED <<rolePermissions, userRoles>>
       ELSE seedRun' = SeedGoes /\ rolePermissions' = {} /\ userRoles' = {}
    /\ UNCHANGED <<users, userEmail, nextUserId, relationshipRows, records, nextRecordId,
                   mutations, req, session, onDelete,
                   registrations>>

seed_userRoleDeleteMany ==
    /\ seedRun.pc = "userRole.deleteMany"
    /\ seedRun' = SeedGoes
    /\ userRoles' = {}
    /\ UNCHANGED <<users, userEmail, nextUserId, rolePermissions, relationshipRows, records,
                   nextRecordId, mutations, req, session, onDelete,
                   registrations>>

\* user.deleteMany() on a table no other table refers to
seed_userDeleteMany_NoForeignKey ==
    /\ seedRun.pc = "user.deleteMany"
    /\ seedRun' = SeedGoes
    /\ users' = {}
    /\ userEmail' = [id \in {} |-> ""]
    /\ UNCHANGED <<nextUserId, userRoles, rolePermissions, relationshipRows, records,
                   nextRecordId, mutations, req, session, onDelete,
                   registrations>>

\* user.deleteMany(): UserRole, PatientRecord and Relationship rows refer to the users
seed_userDeleteMany ==
    /\ seedRun.pc = "user.deleteMany"
    /\ IF onDelete = "Restrict"
          /\ (userRoles # {} \/ DOMAIN records # {} \/ relationships # {})
       THEN /\ seedRun' = SeedThrows
            /\ UNCHANGED <<users, userEmail, userRoles, records, relationshipRows>>
       ELSE /\ seedRun' = SeedGoes
            /\ users' = {}
            /\ userEmail' = [id \in {} |-> ""]
            /\ userRoles' = {}
            /\ records' = EmptyRecords
            /\ relationshipRows' = EmptyBag
    /\ UNCHANGED <<nextUserId, rolePermissions, nextRecordId, mutations, req, session, onDelete,
                   registrations>>

seed_patientRecordDeleteMany ==
    /\ seedRun.pc = "patientRecord.deleteMany"
    /\ seedRun' = SeedGoes
    /\ records' = EmptyRecords
    /\ UNCHANGED <<users, userEmail, nextUserId, userRoles, rolePermissions, relationshipRows,
                   nextRecordId, mutations, req, session, onDelete,
                   registrations>>

seed_relationshipDeleteMany ==
    /\ seedRun.pc = "relationship.deleteMany"
    /\ seedRun' = SeedGoes
    /\ relationshipRows' = EmptyBag
    /\ UNCHANGED <<users, userEmail, nextUserId, userRoles, rolePermissions, records,
                   nextRecordId, mutations, req, session, onDelete,
                   registrations>>

\* permission.create and role.create: the rows are known by their names
seed_permissionCreate ==
    /\ seedRun.pc \in {"permRead", "permWrite"}
    /\ seedRun' = SeedGoes
    /\ UNCHANGED <<users, userEmail, nextUserId, userRoles, rolePermissions, relationshipRows,
                   records, nextRecordId, mutations, req, session, onDelete,
                   registrations>>

seed_roleCreate ==
    /\ seedRun.pc \in {"doctor", "nurse", "admin"}
    /\ seedRun' = SeedGoes
    /\ UNCHANGED <<users, userEmail, nextUserId, userRoles, rolePermissions, relationshipRows,
                   records, nextRecordId, mutations, req, session, onDelete,
                   registrations>>

seed_rolePermissionCreateMany ==
    /\ seedRun.pc = "rolePermission.createMany"
    /\ seedRun' = SeedGoes
    /\ rolePermissions' = rolePermissions \cup SeedRolePermissions
    /\ UNCHANGED <<users, userEmail, nextUserId, userRoles, relationshipRows, records,
                   nextRecordId, mutations, req, session, onDelete,
                   registrations>>

\* user.create: the id comes from the sequence, the e-mail address is unique
seed_userCreate ==
    /\ seedRun.pc \in {"docUser", "nurseUser", "patient"}
    /\ LET email == SeedEmails[CHOOSE i \in 1..3 :
                                 <<"docUser", "nurseUser", "patient">>[i] = seedRun.pc]
       IN  IF \E u \in users : userEmail[u] = email
           THEN seedRun' = SeedThrows /\ UNCHANGED <<users, userEmail, nextUserId>>
           ELSE /\ users' = users \cup {nextUserId}
                /\ userEmail' = [u \in users \cup {nextUserId} |->
                                   IF u = nextUserId THEN email ELSE userEmail[u]]
                /\ nextUserId' = nextUserId + 1
                /\ seedRun' = [SeedGoes EXCEPT ![seedRun.pc] = nextUserId]
    /\ UNCHANGED <<userRoles, rolePermissions, relationshipRows, records, nextRecordId,
                   mutations, req, session, onDelete,
                   registrations>>

seed_userRoleCreateMany ==
    /\ seedRun.pc = "userRole.createMany"
    /\ seedRun' = SeedGoes
    /\ userRoles' = userRoles \cup {<<seedRun.docUser, "doctor">>, <<seedRun.nurseUser, "nurse">>}
    /\ UNCHANGED <<users, userEmail, nextUserId, rolePermissions, relationshipRows, records,
                   nextRecordId, mutations, req, session, onDelete,
                   registrations>>

seed_patientRecordCreate ==
    /\ seedRun.pc \in {"rec1", "rec2"}
    /\ records' = [id \in DOMAIN records \cup {nextRecordId} |->
                     IF id = nextRecordId THEN seedRun.patient ELSE records[id]]
    /\ nextRecordId' = nextRecordId + 1
    /\ seedRun' = [SeedGoes EXCEPT ![seedRun.pc] = nextRecordId]
    /\ UNCHANGED <<users, userEmail, nextUserId, userRoles, rolePermissions, relationshipRows,
                   mutations, req, session, onDelete,
                   registrations>>

\* relationship.create with subject and object exchanged
seed_relationshipCreate_Reversed ==
    /\ seedRun.pc = "relationship.create"
    /\ IF subjectId_objectId_type(seedRun.patient, seedRun.docUser, "assigned_to")
       THEN seedRun' = SeedThrows /\ UNCHANGED relationshipRows
       ELSE /\ seedRun' = SeedGoes
            /\ relationshipRows' =
                 relationshipRows (+) SetToBag({<<seedRun.patient, seedRun.docUser, "assigned_to">>})
    /\ UNCHANGED <<users, userEmail, nextUserId, userRoles, rolePermissions, records, nextRecordId,
                   mutations, req, session, onDelete,
                   registrations>>

seed_relationshipCreate ==
    /\ seedRun.pc = "relationship.create"
    /\ IF subjectId_objectId_type(seedRun.docUser, seedRun.patient, "assigned_to")
       THEN seedRun' = SeedThrows /\ UNCHANGED relationshipRows
       ELSE /\ seedRun' = SeedGoes
            /\ relationshipRows' =
                 relationshipRows (+) SetToBag({<<seedRun.docUser, seedRun.patient, "assigned_to">>})
    /\ UNCHANGED <<users, userEmail, nextUserId, userRoles, rolePermissions, records,
                   nextRecordId, mutations, req, session, onDelete,
                   registrations>>

\* return { users, records: [rec1.id, rec2.id] }
seed_return ==
    /\ seedRun.pc = "return"
    /\ seedRun' = [seedRun EXCEPT !.pc = "idle", !.returned = <<seedRun.rec1, seedRun.rec2>>]
    /\ UNCHANGED <<users, userEmail, nextUserId, userRoles, rolePermissions, relationshipRows,
                   records, nextRecordId, mutations, req, session, onDelete,
                   registrations>>

\* loginUser: the user with the e-mail address, and the userId the token is signed with
loginUser(email) ==
    LET found == {u \in users : userEmail[u] = email}
    IN  IF found = {} THEN NoToken ELSE CHOOSE u \in found : TRUE

\* test: POST /auth/login as the doctor, const token = login.body.token
test_login ==
    /\ session.pc = "idle"
    /\ seedRun.pc = "idle" /\ seedRun.runs >= 1 /\ ~seedRun.failed /\ req.pc = "idle"
    /\ \E ok \in BOOLEAN :
         session' = [session EXCEPT !.pc = "seed",
                                    !.token = IF ok THEN loginUser(SeedEmails[1]) ELSE NoToken]
    /\ UNCHANGED <<users, userEmail, nextUserId, userRoles, rolePermissions, relationshipRows,
                   records, nextRecordId, mutations, req, seedRun, onDelete,
                   registrations>>

\* test: const s = await seed()
test_seed ==
    /\ session.pc = "seed"
    /\ seedRun.pc = "idle" /\ seedRun.runs < MaxSeedRuns /\ req.pc = "idle"
    /\ seedRun' = [SeedIdle EXCEPT !.pc = SeedSteps[1], !.runs = seedRun.runs + 1]
    /\ session' = [session EXCEPT !.pc = "seeding"]
    /\ UNCHANGED <<users, userEmail, nextUserId, userRoles, rolePermissions, relationshipRows,
                   records, nextRecordId, mutations, req, onDelete,
                   registrations>>

\* test: seed() has settled; const recId = s.records[0]
test_seeded ==
    /\ session.pc = "seeding" /\ seedRun.pc = "idle"
    /\ session' = IF seedRun.failed
                  THEN [session EXCEPT !.pc = "threw"]
                  ELSE [session EXCEPT !.pc = "get1", !.recId = seedRun.returned[1]]
    /\ UNCHANGED <<users, userEmail, nextUserId, userRoles, rolePermissions, relationshipRows,
                   records, nextRecordId, mutations, req, seedRun, onDelete,
                   registrations>>

\* test: GET /records/rbac/<recId>, later GET /records/rebac/<recId>, with the token
test_get ==
    /\ session.pc \in {"get1", "get2"} /\ req.pc = "idle"
    /\ session' = [session EXCEPT !.pc = IF session.pc = "get1" THEN "r1" ELSE "r2"]
    /\ req' = [Idle EXCEPT !.pc = "requireAuth",
                           !.route = IF session.pc = "get1" THEN "rbac" ELSE "rebac",
                           !.token = session.token,
                           !.paramsId = StringValue(DigitsOf(session.recId)),
                           !.required = IF session.pc = "get1" THEN "record:read"
                                        ELSE "assigned_to",
                           !.url = DigitsOf(session.recId)]
    /\ UNCHANGED <<users, userEmail, nextUserId, userRoles, rolePermissions, relationshipRows,
                   records, nextRecordId, mutations, seedRun, onDelete,
                   registrations>>

\* test: expect(r1.status).to.equal(200), later expect(r2.status).to.equal(200)
test_expect ==
    /\ session.pc \in {"r1", "r2"} /\ req.pc = "done"
    /\ session' = IF session.pc = "r1"
                  THEN [session EXCEPT !.r1 = req.status,
                                       !.pc = IF req.status = 200 THEN "get2" ELSE "failed"]
                  ELSE [session EXCEPT !.r2 = req.status,
                                       !.pc = IF req.status = 200 THEN "passed" ELSE "failed"]
    /\ req' = Idle
    /\ UNCHANGED <<users, userEmail, nextUserId, userRoles, rolePermissions, relationshipRows,
                   records, nextRecordId, mutations, seedRun, onDelete,
                   registrations>>

\* an empty database, and the relations declared with either referential action
SeedInit ==
    /\ users = {}
    /\ userEmail = [id \in {} |-> ""]
    /\ nextUserId = 1
    /\ userRoles = {}
    /\ rolePermissions = {}
    /\ relationshipRows = EmptyBag
    /\ records = EmptyRecords
    /\ nextRecordId = 1
    /\ mutations = 0
    /\ req = Idle
    /\ seedRun = SeedIdle
    /\ session = NoSession
    /\ onDelete \in ReferentialActions
    /\ registrations = [c \in 1..MaxRegistrations |-> NoRegistration]

\* seed() run from the command line and by the test, with requests of other
\* clients between its runs (by the seeded users, by the doctor's first id, for
\* a seeded record and for an id no record has had) and edges created meanwhile
SeedNext ==
    \/ startSeed
    \/ seed_permissionDeleteMany
    \/ seed_rolePermissionDeleteMany
    \/ seed_roleDeleteMany
    \/ seed_userRoleDeleteMany
    \/ seed_userDeleteMany
    \/ seed_patientRecordDeleteMany
    \/ seed_relationshipDeleteMany
    \/ seed_permissionCreate
    \/ seed_roleCreate
    \/ seed_rolePermissionCreateMany
    \/ seed_userCreate
    \/ seed_userRoleCreateMany
    \/ seed_patientRecordCreate
    \/ seed_relationshipCreate
    \/ seed_return
    \/ test_login
    \/ test_seed
    \/ test_seeded
    \/ test_get
    \/ test_expect
    \/ /\ seedRun.pc = "idle" /\ seedRun.runs >= 1 /\ session.pc \in {"idle", "passed", "failed", "threw"}
       /\ \E token \in {seedRun.docUser, seedRun.nurseUser, seedRun.patient, DocUser},
             n \in {seedRun.rec1, nextRecordId} :
            \/ StartRequest("rbac", token, DigitsOf(n), "record:read")
            \/ \E t \in RequiredRelations : StartRequest("rebac", token, DigitsOf(n), t)
    \/ requireAuth
    \/ validateRecordId
    \/ rbac
    \/ rebacResource
    \/ rebacResourceEdge
    \/ recordHandler
    \/ (session.pc \notin {"r1", "r2"} /\ complete)
    \/ /\ req.pc = "idle"
       /\ \E s \in users, o \in users, t \in RelationTypes : relationshipCreate(s, o, t)

SeedSpec == SeedInit /\ [][SeedNext]_vars

(***************************************************************************)
(* registerUser, one step per awaited call, any number of calls at a time.  *)
(***************************************************************************)
\* e-mail addresses clients register with: one no user has, one the doctor has
RegisterEmails == {"new@example.com", SeedEmails[1]}

\* a catch block that takes every rejected create for a database failure
registerCreateError_AlwaysDatabase(thrown) == "DatabaseError"

\* catch of prisma.user.create: a message with "Unique constraint" is a conflict
registerCreateError(thrown) ==
    IF thrown = "Unique constraint failed on the fields: (email)"
    THEN "ConflictError"
    ELSE "DatabaseError"

RegistrationFails(c, error) ==
    [c EXCEPT !.pc = "done", !.error = error, !.status = errorHandlerStatus(error)]

RegisterUnchanged == UNCHANGED <<userRoles, rolePermissions, relationshipRows, records,
                                 nextRecordId, mutations, req, seedRun, session, onDelete>>

\* POST /auth/register calls registerUser(email, password, name)
registerUser(c, email) ==
    /\ registrations[c].pc = "idle"
    /\ registrations' =
         [registrations EXCEPT ![c] = [NoRegistration EXCEPT !.pc = "findUnique", !.email = email]]
    /\ UNCHANGED <<users, userEmail, nextUserId>>
    /\ RegisterUnchanged

\* const existing = await prisma.user.findUnique({ where: { email } })
register_findUnique(c) ==
    /\ registrations[c].pc = "findUnique"
    /\ \E ok \in BOOLEAN :
         LET r == [registrations[c] EXCEPT !.calls = Append(@, "user.findUnique")]
             existing == {u \in users : userEmail[u] = r.email}
         IN  registrations' =
               [registrations EXCEPT ![c] =
                  IF ~ok
                  THEN \* outside the try block: the rejection leaves registerUser as it is
                       RegistrationFails([r EXCEPT !.rejected = TRUE], "PrismaError")
                  ELSE IF existing # {}
                  THEN RegistrationFails(r, "ConflictError")
                  ELSE [r EXCEPT !.pc = "hash"]]
    /\ UNCHANGED <<users, userEmail, nextUserId>>
    /\ RegisterUnchanged

\* const hash = await bcrypt.hash(password, rounds)
register_hash(c) ==
    /\ registrations[c].pc = "hash"
    /\ registrations' = [registrations EXCEPT ![c].pc = "create"]
    /\ UNCHANGED <<users, userEmail, nextUserId>>
    /\ RegisterUnchanged

\* const user = await prisma.user.create(...), with its catch block; User.email is unique
register_create(c) ==
    /\ registrations[c].pc = "create"
    /\ \E ok \in BOOLEAN :
         LET r == [registrations[c] EXCEPT !.calls = Append(@, "user.create")]
         IN  IF ~ok
             THEN /\ registrations' =
                       [registrations EXCEPT ![c] =
                          RegistrationFails([r EXCEPT !.rejected = TRUE],
                                            registerCreateError("Cannot reach database server"))]
                  /\ UNCHANGED <<users, userEmail, nextUserId>>
             ELSE IF \E u \in users : userEmail[u] = r.email
             THEN /\ registrations' =
                       [registrations EXCEPT ![c] =
                          RegistrationFails(r, registerCreateError(
                              "Unique constraint failed on the fields: (email)"))]
                  /\ UNCHANGED <<users, userEmail, nextUserId>>
             ELSE /\ users' = users \cup {nextUserId}
                  /\ userEmail' = [u \in users \cup {nextUserId} |->
                                     IF u = nextUserId THEN r.email ELSE userEmail[u]]
                  /\ nextUserId' = nextUserId + 1
                  /\ registrations' =
                       [registrations EXCEPT ![c] =
                          [r EXCEPT !.pc = "done", !.user = nextUserId, !.status = 201]]
    /\ RegisterUnchanged

\* any number of registrations at a time on the seeded store
RegisterNext ==
    \/ \E c \in 1..MaxRegistrations, email \in RegisterEmails : registerUser(c, email)
    \/ \E c \in 1..MaxRegistrations : register_findUnique(c)
    \/ \E c \in 1..MaxRegistrations : register_hash(c)
    \/ \E c \in 1..MaxRegistrations : register_create(c)

RegisterSpec == Init /\ [][RegisterNext]_vars

(***************************************************************************)
(* GET /records/rebac/:id while records and edges are written.             *)
(***************************************************************************)
RaceNext ==
    \/ \E token \in SeedUsers, id \in {<<"1">>, <<"2">>}, t \in RequiredRelations :
         StartRequest("rebac", token, id, t)
    \/ requireAuth
    \/ validateRecordId
    \/ rebacResource
    \/ rebacResourceEdge
    \/ recordHandler
    \/ complete
    \/ \E id \in DOMAIN records : patientRecordDelete(id)
    \/ \E id \in DOMAIN records, o \in users : patientRecordUpdate(id, o)
    \/ \E s \in users, o \in users, t \in RelationTypes :
         relationshipCreate(s, o, t) \/ relationshipDelete(s, o, t)

RaceSpec == Init /\ [][RaceNext]_vars

(***************************************************************************)
(* A request, writes to the store, and the request once more: the client   *)
(* keeps the first answer next to the tables it was decided on.            *)
(***************************************************************************)
\* the :id segments the client asks for: a seeded record and a record that
\* exists only once it has been created
IndependenceIds == {<<"1">>, <<"3">>}

\* the tables the rbac middleware is decided on
RoleTables == <<userRoles, rolePermissions>>

\* the tables rebacResource is decided on
ResourceTables == <<records, relationships>>

\* the client keeps the response to its first request; nothing was written since
\* the request was sent
keepResponse ==
    /\ req.pc = "done" /\ "authz" \notin DOMAIN req.prev
    /\ req' = [req EXCEPT !.pc = "kept",
                          !.prev = [status |-> req.status, error |-> req.error,
                                    data |-> req.data, failed |-> req.thrown # "none",
                                    epoch |-> mutations, authz |-> req.authz,
                                    url |-> req.url, roles |-> RoleTables,
                                    resources |-> ResourceTables]]
    /\ UNCHANGED <<store, mutations, aux>>

\* the same client asks again, on the same route with the same token, for record id
sendAgain(id) ==
    /\ req.pc = "kept"
    /\ req' = [Idle EXCEPT !.pc = "requireAuth", !.route = req.route, !.token = req.token,
                           !.paramsId = StringValue(id), !.required = req.required,
                           !.url = id, !.epoch = mutations, !.prev = req.prev]
    /\ UNCHANGED <<store, mutations, aux>>

\* a write to the role tables
roleWrite ==
    \/ \E u \in SeedUsers, r \in RoleNames : userRoleCreate(u, r) \/ userRoleDelete(u, r)
    \/ \E r \in RoleNames, p \in RequiredPermissions : rolePermissionCreate(r, p)

\* a write to the records or to the relationship edges
resourceWrite ==
    \/ \E s \in SeedUsers, o \in SeedUsers, t \in RelationTypes :
         relationshipCreate(s, o, t) \/ relationshipDelete(s, o, t)
    \/ \E id \in DOMAIN records : patientRecordDelete(id)
    \/ \E id \in DOMAIN records, o \in users : patientRecordUpdate(id, o)
    \/ \E o \in users : patientRecordCreate(o)

IndependenceNext ==
    \/ \E token \in SeedUsers, id \in IndependenceIds :
         \/ \E p \in RequiredPermissions : StartRequest("rbac", token, id, p)
         \/ \E t \in RequiredRelations : StartRequest("rebac", token, id, t)
    \/ requireAuth
    \/ validateRecordId
    \/ rbac
    \/ rebacResource
    \/ rebacResourceEdge
    \/ recordHandler
    \/ keepResponse
    \/ \E id \in IndependenceIds : sendAgain(id)
    \/ (req.pc = "kept" /\ roleWrite)
    \/ (req.pc = "kept" /\ resourceWrite)

IndependenceSpec == Init /\ [][IndependenceNext]_vars

(***************************************************************************)
(* Properties of the authorization decisions.                              *)
(***************************************************************************)
\* the subject, resource id and owner a request is decided for
RequestedId(r) == parseInt(StringOf(r.paramsId))
RolesOf(userId) == {role \in RoleNames : <<userId, role>> \in userRoles}
PermissionsOf(role) == {p \in PermissionNames : <<role, p>> \in rolePermissions}

\* some role of the subject is assigned a permission named exactly P
HoldsPermission(userId, P) == \E role \in RolesOf(userId) : P \in PermissionsOf(role)

\* req.user as loaded agrees with the tables
SnapshotMatches(user) ==
    /\ user.id \in users
    /\ Len(user.roles) = Cardinality(RolesOf(user.id))
    /\ {user.roles[i].name : i \in DOMAIN user.roles} = RolesOf(user.id)
    /\ \A i \in DOMAIN user.roles :
         /\ Range(user.roles[i].permissions) = PermissionsOf(user.roles[i].name)
         /\ Len(user.roles[i].permissions) = Cardinality(PermissionsOf(user.roles[i].name))

\* the step in which a middleware of the given name hands its outcome to next()
Decides(pcs) == req.pc \in pcs /\ ~Decided(req) /\ Decided(req')

\* the step's store read did not fail
ReadOk == req'.authz # "PrismaError"

\* C1: the RBAC check allows exactly when a role of the subject is assigned a
\* permission whose name equals the required name; every other case, a subject
\* without roles included, is a ForbiddenError (403); wildcard-looking names in
\* the store grant nothing else. requireAuth loads exactly the subject's roles
\* and permissions.
C1_RbacExactMatch ==
    [][ /\ (req.pc = "requireAuth" /\ req'.pc = "validateRecordId")
            => (req'.user.id = req.token /\ SnapshotMatches(req'.user))
        /\ (Decides({"rbac"}) /\ SnapshotMatches(req.user))
            => /\ Allow(req') <=> HoldsPermission(req.user.id, req.required)
               /\ ~Allow(req') =>
                    (Deny(req') /\ req'.error = "ForbiddenError" /\ req'.status = 403)
      ]_vars

\* a subject holding "record:*" but not the required permission has been denied
C1_Witness ==
    /\ req.route = "rbac" /\ Deny(req) /\ req.status = 403
    /\ SnapshotMatches(req.user)
    /\ "record:*" \in Range(req.permissions)
    /\ ~HoldsPermission(req.user.id, req.required)

\* C2: for an existing resource X the ReBAC check allows exactly when the
\* subject is X's owner or the edge (subject, X's owner, required type) is in
\* the store, and denies otherwise; edges to other entities do not count.
C2_RebacExact ==
    [][ LET X == RequestedId(req)
            S == req.user.id
        IN  (Decides({"rebacResource", "rebacResourceEdge"}) /\ ReadOk
               /\ ~X.nan /\ X.n \in DOMAIN records)
            => IF records[X.n] = S \/ <<S, records[X.n], req.required>> \in relationships
               THEN Allow(req')
               ELSE Deny(req') /\ req'.status = 403
      ]_vars

\* a subject with an edge of the required type to somebody other than the
\* owner has been denied
C2_Witness ==
    /\ req.route = "rebac" /\ Deny(req)
    /\ \E o \in users :
         /\ o # req.record.ownerId
         /\ <<req.user.id, o, req.required>> \in relationships

\* C3: when the subject owns the resource the check allows for every relation
\* type, and it does so without a relationship lookup.
C3_OwnerFastPath ==
    [][ LET X == RequestedId(req)
        IN  (req.pc = "rebacResource" /\ req'.pc # "rebacResource" /\ ReadOk
               /\ ~X.nan /\ X.n \in DOMAIN records /\ records[X.n] = req.user.id)
            => /\ Allow(req') /\ req'.pc = "handler"
               /\ "relationship.findUnique" \notin Range(req'.reads)
      ]_vars

\* an owner has been allowed for a relation type no edge in the store has
C3_Witness ==
    /\ req.route = "rebac" /\ Allow(req)
    /\ req.record.ownerId = req.user.id
    /\ \A e \in relationships : e[3] # req.required

\* C4: a subject that is not the owner and has no edge of the required type to
\* the owner is denied, whatever edges of other types connect the two.
C4_TypeExact ==
    [][ LET A == req.user.id
            B == req.record.ownerId
        IN  (Decides({"rebacResourceEdge"}) /\ ReadOk
               /\ A # B /\ <<A, B, req.required>> \notin relationships)
            => (Deny(req') /\ req'.error = "ForbiddenError" /\ req'.status = 403)
      ]_vars

\* a check for "assigned_to" has been denied although a "manages" edge exists
C4_Witness ==
    /\ req.route = "rebac" /\ Deny(req) /\ req.required = "assigned_to"
    /\ <<req.user.id, req.record.ownerId, "manages">> \in relationships

\* C5: a ReBAC check for a record id that is not in the store ends in
\* NotFoundError (404) and never in ForbiddenError, whatever edges the subject has.
C5_NotFoundPrecedence ==
    [][ LET X == RequestedId(req)
        IN  (req.pc = "rebacResource" /\ req'.pc # "rebacResource" /\ ReadOk
               /\ ~X.nan /\ X.n >= 1 /\ X.n \notin DOMAIN records)
            => /\ NotFound(req') /\ ~Deny(req')
               /\ req'.error = "NotFoundError" /\ req'.status = 404
      ]_vars

\* a subject that has an edge of the required type got NotFound
C5_Witness ==
    /\ req.route = "rebac" /\ NotFound(req) /\ req.status = 404
    /\ \E o \in users : <<req.user.id, o, req.required>> \in relationships

\* the step adds one role membership and leaves the role-permission table alone
RoleGranted ==
    /\ userRoles # userRoles' /\ userRoles \subseteq userRoles'
    /\ rolePermissions' = rolePermissions

\* C6: a role grant never takes a permission away: whatever the check resolved
\* for a subject before the grant, in any enumeration order, it resolves after it.
C6_RbacMonotonic ==
    [][ RoleGranted =>
          \A S \in users, P \in PermissionNames :
            (\E before \in userFindUnique(S) : SetHas(userPermissions(before), P))
              => \A after \in userFindUnique(S)' : SetHas(userPermissions(after), P)
      ]_vars

\* a subject with a second role, one that lacks the required permission, has
\* been allowed through the permission of the other role
C6_Witness ==
    /\ req.route = "rbac" /\ Allow(req)
    /\ SnapshotMatches(req.user)
    /\ Len(req.user.roles) >= 2
    /\ \E i \in DOMAIN req.user.roles : req.required \notin Range(req.user.roles[i].permissions)

\* number of times x occurs in the sequence s
Occurrences(s, x) == Cardinality({i \in DOMAIN s : s[i] = x})

\* C7: when two roles of the subject grant the required permission, the
\* resolved collection holds it exactly once and the check allows; every order
\* of enumerating roles and role-permissions resolves the same set.
C7_RbacSetSemantics ==
    /\ (/\ req.route = "rbac" /\ Decided(req)
        /\ Cardinality({i \in DOMAIN req.user.roles :
                          req.required \in Range(req.user.roles[i].permissions)}) >= 2)
       => (Allow(req) /\ Occurrences(req.permissions, req.required) = 1)
    /\ (req.pc = "rbac" /\ SnapshotMatches(req.user))
       => \A other \in userFindUnique(req.user.id) :
            /\ Range(userPermissions(other)) = Range(userPermissions(req.user))
            /\ \A P \in PermissionNames : Occurrences(userPermissions(other), P) <= 1

\* a subject with two roles that both grant the required permission has been allowed
C7_Witness ==
    /\ req.route = "rbac" /\ Allow(req)
    /\ Cardinality({i \in DOMAIN req.user.roles :
                      req.required \in Range(req.user.roles[i].permissions)}) >= 2

\* the edges between a and b, in either direction
EdgesBetween(a, b) == {e \in relationships : {e[1], e[2]} = {a, b}}

\* C8: relationships are directed: when (A, B, T) is the only edge between A
\* and B, B is denied on a resource of A and A is allowed on a resource of B.
C8_NotSymmetric ==
    [][ LET S == req.user.id
            O == req.record.ownerId
            T == req.required
        IN  (Decides({"rebacResourceEdge"}) /\ ReadOk /\ S # O)
            => /\ EdgesBetween(S, O) = {<<O, S, T>>} => Deny(req')
               /\ EdgesBetween(S, O) = {<<S, O, T>>} => Allow(req')
      ]_vars

\* B has been denied on a resource of A while (A, B, T) is in the store
C8_Witness ==
    /\ req.route = "rebac" /\ Deny(req)
    /\ EdgesBetween(req.user.id, req.record.ownerId)
         = {<<req.record.ownerId, req.user.id, req.required>>}

\* the users one edge of type T away from a user of the set
Hop(from, T) == {e[2] : e \in {x \in relationships : x[1] \in from /\ x[3] = T}}

\* C is reached from A by a chain of two or three edges of type T
ChainExists(A, C, T) ==
    C \in Hop(Hop({A}, T), T) \cup Hop(Hop(Hop({A}, T), T), T)

\* C9: only the direct edge to the owner counts: with (A, B, T) and (B, C, T)
\* in the store but not (A, C, T), A is denied on a resource of C.
C9_SingleHop ==
    [][ LET A == req.user.id
            C == req.record.ownerId
            T == req.required
        IN  (Decides({"rebacResourceEdge"}) /\ ReadOk /\ A # C
               /\ ChainExists(A, C, T) /\ <<A, C, T>> \notin relationships)
            => Deny(req')
      ]_vars

\* A has been denied on a resource of C while (A, B, T) and (B, C, T) exist
C9_Witness ==
    /\ req.route = "rebac" /\ Deny(req)
    /\ \E B \in users \ {req.user.id, req.record.ownerId} :
         /\ <<req.user.id, B, req.required>> \in relationships
         /\ <<B, req.record.ownerId, req.required>> \in relationships

\* C10: no step of a request, whatever its outcome, changes a table of the store.
C10_DecisionsReadOnly ==
    [][ req' # req => UNCHANGED store ]_vars

\* a request has made all three reads and been answered on the seeded store
C10_Witness ==
    /\ req.pc = "done" /\ req.status = 200
    /\ req.reads = <<"user.findUnique", "patientRecord.findUnique",
                     "relationship.findUnique", "patientRecord.findUnique">>
    /\ mutations = 0

(***************************************************************************)
(* Properties of failed store reads.                                       *)
(***************************************************************************)
\* a Prisma call of the request has rejected
StoreFailed(r) == r.thrown # "none"

\* what the client is told: status and error name of the response
Outcome(r) == <<r.status, r.error>>

\* C14: a request one of whose store reads failed never ends in 200 with record
\* data and never in 403; it ends at once in an error response.
C14_FailClosed ==
    StoreFailed(req) =>
        /\ req.pc = "done"
        /\ req.status \notin {200, 403} /\ req.status >= 400
        /\ req.error \notin {"none", "ForbiddenError"}
        /\ req.data = NoRecord
        /\ ~Deny(req)

\* the relationship lookup of a request failed after its first two reads succeeded
C14_Witness ==
    /\ StoreFailed(req)
    /\ req.reads = <<"user.findUnique", "patientRecord.findUnique", "relationship.findUnique">>

\* C15: a failed store read is not retried and the error that reaches the error
\* handler is the error the store raised.
C15_PropagatedUnchanged ==
    StoreFailed(req) =>
        /\ req.pc = "done"
        /\ req.error = req.thrown

\* C16: denial, missing resource and unreadable store are reported with pairwise
\* different outcomes, and an unreadable store is also reported differently
\* from a missing or invalid credential.
C16_Distinguishable ==
    LET DenyOutcome == <<errorHandlerStatus("ForbiddenError"), "ForbiddenError">>
        NotFoundOutcome == <<errorHandlerStatus("NotFoundError"), "NotFoundError">>
        CredentialOutcome == <<errorHandlerStatus("UnauthorizedError"), "UnauthorizedError">>
    IN  /\ DenyOutcome # NotFoundOutcome
        /\ (req.pc = "done" /\ StoreFailed(req))
             => Outcome(req) \notin {DenyOutcome, NotFoundOutcome, CredentialOutcome}
        /\ (req.pc = "done" /\ ~StoreFailed(req) /\ Deny(req)) => Outcome(req) = DenyOutcome
        /\ (req.pc = "done" /\ ~StoreFailed(req) /\ req.error = "NotFoundError")
             => Outcome(req) = NotFoundOutcome

(***************************************************************************)
(* Decisions that overlap one write to the store.                          *)
(***************************************************************************)
\* the RBAC and ReBAC conditions evaluated on given tables
RbacOn(ur, rp, userId, P) == \E role \in RoleNames : <<userId, role>> \in ur /\ <<role, P>> \in rp
RebacOn(recs, edges, userId, id, type) ==
    recs[id] = userId \/ <<userId, recs[id], type>> \in edges

\* some middleware or handler of the pipeline can take its step
PipelineEnabled ==
    ENABLED (requireAuth \/ validateRecordId \/ rbac \/ rebacResource \/ rebacResourceEdge
               \/ recordHandler)

\* the request of an existing subject for an existing record, all reads successful
PlainRequest ==
    /\ req.token \in users /\ ~StoreFailed(req)
    /\ ~RequestedId(req).nan /\ RequestedId(req).n \in DOMAIN SeedRecords

\* C13: a decision that overlaps at most one grant, revocation, edge creation
\* or edge deletion always finishes, with Allow or Deny, and its outcome is the
\* one the tables before the write or the tables after the write give.
C13_SingleMutation ==
    (mutations <= 1 /\ records = SeedRecords) =>
        /\ req.pc \notin {"idle", "done"} => PipelineEnabled
        /\ (req.pc = "done" /\ PlainRequest) =>
             /\ Allow(req) \/ Deny(req)
             /\ req.status = IF Allow(req) THEN 200 ELSE 403
             /\ req.route = "rbac" =>
                  Allow(req) \in {RbacOn(SeedUserRoles, SeedRolePermissions,
                                         req.token, req.required),
                                  RbacOn(userRoles, rolePermissions, req.token, req.required)}
             /\ req.route = "rebac" =>
                  Allow(req) \in {RebacOn(SeedRecords, SeedRelationships, req.token,
                                          RequestedId(req).n, req.required),
                                  RebacOn(records, relationships, req.token,
                                          RequestedId(req).n, req.required)}

\* the nurse's request was denied on the tables as they were although the role
\* that grants the permission has been added since
C13_Witness ==
    /\ mutations = 1 /\ req.pc = "done" /\ PlainRequest
    /\ req.route = "rbac" /\ req.token = NurseUser /\ req.required = "record:write"
    /\ Deny(req)
    /\ RbacOn(userRoles, rolePermissions, req.token, req.required)

(***************************************************************************)
(* Repeated requests.                                                      *)
(***************************************************************************)
\* what the client received
Response(r) == [status |-> r.status, error |-> r.error, data |-> r.data]

\* C11: a request sent again while no write has been committed in between gets
\* the response it got before, however often it is repeated and whatever order
\* the store returns the rows in, as long as the store can be read. Two
\* repetitions with the same count of committed writes saw the same store.
C11_Deterministic ==
    (/\ req.pc = "done" /\ req.prev.status # NoToken
     /\ req.prev.epoch = req.epoch
     /\ ~StoreFailed(req) /\ ~req.prev.failed)
    => Response(req) = [status |-> req.prev.status, error |-> req.prev.error,
                        data |-> req.prev.data]

\* the doctor, whose role carries two permissions, was allowed twice in a row
C11_Witness ==
    /\ req.pc = "done" /\ req.prev.status = 200 /\ req.status = 200
    /\ req.prev.epoch = req.epoch
    /\ req.route = "rbac" /\ req.token = DocUser /\ req.required = "record:write"
    /\ Len(req.permissions) = 2

\* C12: every request starts without data of an earlier request and loads the
\* subject, the record and the edge itself, so it is decided on the tables as
\* they are when it is served: a revocation or deletion committed before it
\* denies it, a grant or creation committed before it allows it.
C12_NoCaching ==
    [][ /\ req'.pc = "requireAuth" =>
             /\ req'.user = NoUser /\ req'.permissions = <<>>
             /\ req'.record = NoRecord /\ req'.relationship = {} /\ req'.reads = <<>>
        /\ (Decides({"rbac"}) /\ req.token \in users) =>
             /\ req.reads = <<"user.findUnique">>
             /\ Allow(req') <=> RbacOn(userRoles, rolePermissions, req.token, req.required)
        /\ LET X == RequestedId(req)
           IN  (Decides({"rebacResource", "rebacResourceEdge"}) /\ ReadOk
                  /\ ~X.nan /\ X.n \in DOMAIN records) =>
                 /\ req'.reads[1] = "user.findUnique"
                 /\ req'.reads[2] = "patientRecord.findUnique"
                 /\ records[X.n] # req.token =>
                      req'.reads = <<"user.findUnique", "patientRecord.findUnique",
                                     "relationship.findUnique">>
                 /\ Allow(req') <=> RebacOn(records, relationships, req.token, X.n,
                                            req.required)
      ]_vars

\* the doctor's request, allowed before, is denied when sent again with the
\* same token after a revocation
C12_Witness ==
    /\ req.pc = "done" /\ req.prev.status = 200 /\ req.status = 403
    /\ req.prev.epoch < req.epoch
    /\ req.route = "rbac" /\ req.token = DocUser /\ req.required = "record:read"

(***************************************************************************)
(* Properties of seed() and of the test that calls it.                     *)
(***************************************************************************)
\* seed() has returned and no other client has written anything
Seeded == seedRun.pc = "idle" /\ seedRun.runs >= 1 /\ ~seedRun.failed /\ mutations = 0

\* C17: with the token of the doctor's login, the second call of seed() returns
\* and GET /records/rbac/<id> and GET /records/rebac/<id> for the first record
\* it returned are both answered 200.
C17_TokenSurvivesSeed ==
    session.token # NoToken =>
        /\ session.pc # "threw"
        /\ (session.pc \in {"r1", "r2"} /\ req.pc = "done" /\ ~StoreFailed(req))
             => req.status = 200

\* C18: on the store seed() produces, record:read is allowed for the doctor and
\* the nurse and denied for the patient; on a seeded record the ReBAC check
\* allows the doctor with assigned_to, denies the doctor with manages, denies
\* the nurse with assigned_to and allows the patient, who is the owner; on an
\* id no record ever had it is NotFound. The first run on an empty database
\* leaves the users 1..3 with the seeded tables.
C18_SeededScenarios ==
    LET D == seedRun.docUser
        N == seedRun.nurseUser
        P == seedRun.patient
        X == RequestedId(req)
    IN  /\ (Seeded /\ req.pc = "done" /\ ~StoreFailed(req) /\ req.route = "rbac"
              /\ req.required = "record:read") =>
             /\ req.token \in {D, N} => Allow(req)
             /\ req.token = P => (Deny(req) /\ req.status = 403)
        /\ (Seeded /\ req.pc = "done" /\ ~StoreFailed(req) /\ req.route = "rebac"
              /\ req.token \in {D, N, P}) =>
             /\ X.n \in {seedRun.rec1, seedRun.rec2} =>
                  /\ (req.token = D /\ req.required = "assigned_to") => req.status = 200
                  /\ (req.token = D /\ req.required = "manages") => req.status = 403
                  /\ (req.token = N /\ req.required = "assigned_to") => req.status = 403
                  /\ (req.token = P /\ req.required = "assigned_to") => req.status = 200
             /\ X.n >= nextRecordId => (NotFound(req) /\ req.status = 404)
        /\ (Seeded /\ seedRun.runs = 1) =>
             /\ users = SeedUsers /\ <<D, N, P>> = <<DocUser, NurseUser, PatientUser>>
             /\ userEmail = [id \in SeedUsers |-> SeedEmails[id]]
             /\ userRoles = SeedUserRoles /\ rolePermissions = SeedRolePermissions
             /\ relationships = SeedRelationships /\ records = SeedRecords
             /\ nextUserId = 4 /\ nextRecordId = 3

\* after the second run of seed() the patient, under a new id, reads an own record
C18_Witness ==
    /\ Seeded /\ seedRun.runs = 2 /\ seedRun.patient # PatientUser
    /\ req.pc = "done" /\ req.route = "rebac" /\ req.required = "assigned_to"
    /\ req.token = seedRun.patient /\ req.status = 200
    /\ req.data.id = seedRun.rec1

\* C19: no (subjectId, objectId, type) triple has more than one row, whatever
\* seed() runs and attempts to create an existing edge there have been.
C19_TripleUnique ==
    \A e \in BagToSet(relationshipRows) : CopiesIn(e, relationshipRows) <= 1

\* seed() was rejected when it created the edge another client had created already
C19_Witness ==
    /\ seedRun.failed /\ seedRun.rec2 # NoToken
    /\ CopiesIn(<<seedRun.docUser, seedRun.patient, "assigned_to">>, relationshipRows) = 1

Authenticates(token) == token # NoToken /\ token \in users

\* the store rejected a read of the request
ReadRejected(r) == r.thrown = "PrismaError"

\* C21: on GET /records/rbac/:id a request of an authenticated user who holds
\* the permission, with an :id that is no positive integer, is answered 400
\* BadRequestError and never 200, 404 or 500.
C21_InvalidIdIs400 ==
    (/\ req.pc = "done" /\ req.route = "rbac"
     /\ req.user # NoUser /\ Allow(req) /\ ~ReadRejected(req)
     /\ ~isInt(req.url))
    => /\ req.status = 400 /\ req.error = "BadRequestError"
       /\ req.status \notin {200, 404, 500}

\* C23: a request whose token is missing or names no user in the store is
\* answered 401; no authorization middleware and no handler runs for it, no
\* record is read and no record data is returned.
C23_AuthenticationRequired ==
    (req.pc # "idle" /\ ~Authenticates(req.token)) =>
        /\ req.pc \in {"requireAuth", "done"}
        /\ req.pc = "done" => (req.status = 401 /\ req.error = "UnauthorizedError")
        /\ req.user = NoUser /\ req.authz = "pending" /\ req.permissions = <<>>
        /\ req.record = NoRecord /\ req.relationship = {} /\ req.data = NoRecord
        /\ \A i \in DOMAIN req.reads : req.reads[i] = "user.findUnique"

\* a request with the token of a user who is not in the store was answered 401
\* after the store had been asked for the user
C23_Witness ==
    /\ req.pc = "done" /\ req.token # NoToken /\ req.token \notin users
    /\ req.status = 401 /\ req.message = "User not found"
    /\ req.reads = <<"user.findUnique">>

\* the Prisma calls of the route handler among the calls of a request: on the
\* rbac route every record read, on the rebac route every record read after the first
HandlerReads(r) ==
    LET n == Cardinality({i \in DOMAIN r.reads : r.reads[i] = "patientRecord.findUnique"})
    IN  IF r.route = "rebac" /\ n > 0 THEN n - 1 ELSE n

\* C26: record data is sent with 200 only in a request that authenticated and
\* whose authorization middleware allowed it; once a middleware has answered
\* with an error the handler does not run and fetches nothing.
C26_HandlerOnlyAfterAllow ==
    /\ (req.status = 200 \/ req.data # NoRecord \/ req.pc = "handler" \/ HandlerReads(req) > 0)
         => /\ req.user # NoUser /\ req.user.id = req.token
            /\ Allow(req)
            /\ req.reads[1] = "user.findUnique"
    /\ (req.status = 200) <=> (req.data # NoRecord)
    /\ req.authz \notin {"pending", "next"}
         => /\ req.pc = "done" /\ req.status # 200 /\ req.data = NoRecord
            /\ HandlerReads(req) = 0
            /\ req.error = req.authz
    /\ (req.pc = "done" /\ req.authz = "pending")
         => (req.status = 401 /\ HandlerReads(req) = 0 /\ req.data = NoRecord)

\* a denied request on the rebac route has ended with its three reads, none of
\* them the handler's
C26_Witness ==
    /\ req.pc = "done" /\ req.route = "rebac" /\ Deny(req) /\ req.status = 403
    /\ req.reads = <<"user.findUnique", "patientRecord.findUnique", "relationship.findUnique">>

C30_AuthFailureMasked ==
    (StoreFailed(req) /\ req.reads = <<"user.findUnique">>) =>
        /\ req.pc = "done"
        /\ req.error = "UnauthorizedError" /\ req.error # req.thrown
        /\ req.message = "Authentication failed"
        /\ req.status = 401
        /\ req.user = NoUser /\ req.authz = "pending"

\* the user load of a request with a valid token was rejected by the store
C30_Witness ==
    /\ StoreFailed(req) /\ req.reads = <<"user.findUnique">>
    /\ Authenticates(req.token) /\ req.status = 401

\* C28: a token whose userId is the id of no user in the store, the user having
\* been deleted or deleted and created again under a new id, never
\* authenticates: the request ends 401 UnauthorizedError with req.user unset,
\* and whatever user a request carries is the user of its own token.
C28_StaleTokenRejected ==
    /\ (req.pc # "idle" /\ req.token \notin users) =>
         /\ req.pc \in {"requireAuth", "done"}
         /\ req.pc = "done" => (req.status = 401 /\ req.error = "UnauthorizedError")
         /\ req.user = NoUser /\ req.authz = "pending" /\ req.permissions = <<>>
         /\ req.data = NoRecord
    /\ req.user # NoUser =>
         /\ req.user.id = req.token
         /\ \A i \in DOMAIN req.user.roles : <<req.token, req.user.roles[i].name>> \in userRoles

\* the test's request carries the id the doctor had before seed() ran again; the
\* doctor is in the store under a new id and the request was answered 401
C28_Witness ==
    /\ session.pc = "r1" /\ req.pc = "done" /\ req.token = session.token
    /\ req.token # NoToken /\ req.token \notin users
    /\ \E u \in users : userEmail[u] = SeedEmails[1] /\ u = seedRun.docUser
    /\ req.status = 401 /\ req.message = "User not found"

(***************************************************************************)
(* Properties of registration.                                             *)
(***************************************************************************)
\* the calls made with an e-mail address
CallsWith(email) ==
    {c \in 1..MaxRegistrations : registrations[c].pc # "idle" /\ registrations[c].email = email}

\* C24: however registerUser calls with one e-mail address interleave, no two
\* users hold the address; once all of them have returned, none rejected by
\* the store for another reason, exactly one has succeeded if no user held
\* the address before and none otherwise, and every other call has failed
\* with ConflictError (409).
C24_EmailUnique ==
    \A email \in RegisterEmails :
        /\ Cardinality({u \in users : userEmail[u] = email}) <= 1
        /\ (/\ CallsWith(email) # {}
            /\ \A c \in CallsWith(email) :
                 registrations[c].pc = "done" /\ ~registrations[c].rejected)
           => LET won == {c \in CallsWith(email) : registrations[c].error = "none"}
              IN  /\ Cardinality(won) =
                       IF \E u \in SeedUsers : SeedEmails[u] = email THEN 0 ELSE 1
                  /\ \A c \in won :
                       /\ registrations[c].user \in users
                       /\ userEmail[registrations[c].user] = email
                  /\ \A c \in CallsWith(email) \ won :
                       /\ registrations[c].error = "ConflictError"
                       /\ registrations[c].status = 409

\* two calls with the new address both passed the existence check; one created
\* the user, the other was refused by user.create
C24_Witness ==
    \E c, d \in 1..MaxRegistrations :
        /\ registrations[c].email = "new@example.com" /\ registrations[c].error = "none"
        /\ registrations[c].pc = "done"
        /\ registrations[d].email = "new@example.com" /\ registrations[d].pc = "done"
        /\ registrations[d].calls = <<"user.findUnique", "user.create">>
        /\ registrations[d].error = "ConflictError"

(***************************************************************************)
(* Properties of a ReBAC request that overlaps writes.                     *)
(***************************************************************************)
\* C25: a record returned with 200 on GET /records/rebac/:id is owned by the
\* requesting user, or the user holds the required edge to the owner the
\* returned record names, at some moment during the request. With at most one
\* write so far, every moment of the request saw the seeded tables or the
\* tables as they are now.
C25_ReturnedOwnerAuthorized ==
    (/\ req.pc = "done" /\ req.route = "rebac" /\ req.status = 200
     /\ mutations <= 1)
    => LET owner == req.data.ownerId
       IN  \/ req.token = owner
           \/ <<req.token, owner, req.required>> \in SeedRelationships \cup relationships

(***************************************************************************)
(* Properties of a decision compared with the decision of the request      *)
(* before it.                                                              *)
(***************************************************************************)
\* the client holds the answer to an earlier request on this route with this token
Kept(r) == "authz" \in DOMAIN r.prev

\* the rbac middleware reached its decision
RbacDecided(authz) == authz \in {"next", "ForbiddenError"}

\* rebacResource reached an outcome without a rejected read
RebacDecided(authz) == authz \notin {"pending", "PrismaError"}

\* the rows of the Permission table
SeedPermissions == {"record:read", "record:write"}

\* C22: for a fixed subject and permission name the rbac middleware gives the
\* same Allow/Deny for every record id, existing or not, whoever owns the
\* records and whatever edges exist: two requests decided on equal role
\* memberships and equal role-permission assignments are decided alike.
C22_ResourceAgnostic ==
    (/\ req.route = "rbac" /\ req.pc # "kept" /\ Kept(req)
     /\ RbacDecided(req.authz) /\ RbacDecided(req.prev.authz)
     /\ req.prev.roles = RoleTables)
    => /\ Allow(req) <=> req.prev.authz = "next"
       /\ Deny(req) <=> req.prev.authz = "ForbiddenError"

\* allowed for record 1 and, after a write to records or edges, allowed again
\* for another id whose record does not exist
C22_Witness ==
    /\ req.route = "rbac" /\ req.pc = "done" /\ Kept(req)
    /\ req.prev.authz = "next" /\ Allow(req)
    /\ req.prev.roles = RoleTables /\ req.prev.resources # ResourceTables
    /\ req.prev.url # req.url
    /\ req.prev.status = 200 /\ req.status = 404

\* C29: for a fixed subject, record id and relation type the outcome of
\* rebacResource does not depend on role memberships or role-permission
\* assignments: two requests decided on equal records and edges have the same
\* outcome; a subject without any role that owns the record or holds the
\* required edge is allowed, and a subject holding every permission that
\* neither owns the record nor holds the edge is denied.
C29_RoleIndependent ==
    (req.route = "rebac" /\ req.pc \in {"handler", "done"} /\ RebacDecided(req.authz))
    => /\ (/\ Kept(req) /\ req.prev.url = req.url
           /\ RebacDecided(req.prev.authz)
           /\ req.prev.resources = ResourceTables)
          => req.authz = req.prev.authz
       /\ LET id == parseInt(req.url)
          IN  (~invalidRecordId(id) /\ id.n \in DOMAIN records)
              => LET owner == records[id.n]
                     linked == \/ owner = req.token
                               \/ <<req.token, owner, req.required>> \in relationships
                     permissions == UNION {PermissionsOf(role) : role \in RolesOf(req.token)}
                 IN  /\ (RolesOf(req.token) = {} /\ linked) => Allow(req)
                     /\ (SeedPermissions \subseteq permissions /\ ~linked) => Deny(req)

\* the nurse is denied record 1, is then given every permission, and is denied again
C29_Witness ==
    /\ req.route = "rebac" /\ req.pc = "done" /\ Kept(req)
    /\ req.prev.url = req.url /\ req.prev.resources = ResourceTables
    /\ req.prev.roles # RoleTables
    /\ req.prev.authz = "ForbiddenError" /\ Deny(req)
    /\ SeedPermissions \subseteq UNION {PermissionsOf(role) : role \in RolesOf(req.token)}

====
